---- MODULE Spec2Model ----
(***************************************************************************)
(* Document identity, revision and reconciliation model of the math        *)
(* editor: the revision reconciler (DocumentInfo), the collaborator        *)
(* derivation (EditDocumentInfo), the bundle import/backup path            *)
(* (Documents) and the sticky-note embedding bridge (StickyNode).          *)
(***************************************************************************)
EXTENDS Integers, Sequences, FiniteSets, TLC

VARIABLES
    documentId,      \* DocumentInfo: the documentId prop
    userDocument,    \* DocumentInfo: state.documents.find(d => d.id === documentId)
    revisions,       \* DocumentInfo: state.revisions (local revisions of all documents)
    info,            \* DocumentInfo: what the last render computed
    cloudDocument,   \* EditDocumentInfo: the cloudDocument prop
    viewInfo,        \* EditDocumentInfo: what the last render computed
    node,            \* StickyNode: __color and __data of the node in the parent editor
    sticky,          \* StickyComponent: the state of stickyEditor.current
    mounted,         \* StickyComponent: "no", "yes", or "removed" with the node
    onChangePending, \* OnChangePlugin has called onChange, handleChange has not run yet
    renderPending,   \* the node's data changed, the component has not re-rendered yet
    feeds,           \* the last payloads the parent fed, and whether each was replaced
    copied,          \* the last node rebuilt by importJSON from an exportJSON
    db,              \* documentDB: the documents held on the device, by id
    documents,       \* Documents: state.documents
    closureDocs,     \* Documents: the documents the running import's closure holds
    files,           \* the files of the last call of handleFilesChange
    reading,         \* the indexes of the files whose reader.onload is still to come
    returned,        \* the last call of handleFilesChange has returned to its caller
    dbQueue,         \* the dispatched thunks that have not completed, oldest first
    alerts,          \* the "Document already exists" alerts not yet answered
    notices,         \* the "Invalid file" announcements of the last import
    navigated,       \* the documents the last import called navigate("/edit/...") for
    submitted,       \* the calls of addDocument of the last import, in order
    download         \* the file the last backup produced

importVars == <<db, documents, closureDocs, files, reading, returned,
                dbQueue, alerts, notices, navigated, submitted, download>>

vars == <<documentId, userDocument, revisions, info, cloudDocument, viewInfo,
          node, sticky, mounted, onChangePending, renderPending, feeds, copied,
          importVars>>

infoVars == <<documentId, userDocument, revisions, info>>
viewVars == <<cloudDocument, viewInfo>>
stickyVars == <<node, sticky, mounted, onChangePending, renderPending, feeds, copied>>

(***************************************************************************)
(* Bounds of the model.                                                    *)
(***************************************************************************)
MaxLocalRevs == 1
MaxCloudRevs == 2
MaxViewRevs == 5
MaxCoauthors == 1
MaxEntries == 2
MaxFiles == 2

(***************************************************************************)
(* Values.                                                                 *)
(***************************************************************************)
Undefined == "undefined"

DocIds == {"d1", "d2"}
RevIds == {"A", "B", "C"}

\* ISO date strings as the store holds them.
DateStrings == {"2024-01-01T00:00:00.000Z", "2024-01-02T00:00:00.000Z"}
UpdatedAtStrings == {"2024-01-02T00:00:00.000Z", "2024-01-03T00:00:00.000Z"}

\* new Date(s).getTime(), in days since 2023-12-31.
GetTime(s) ==
    CASE s = "2024-01-01T00:00:00.000Z" -> 1
      [] s = "2024-01-02T00:00:00.000Z" -> 2
      [] s = "2024-01-03T00:00:00.000Z" -> 3

Absent == [present |-> FALSE]

NotRendered == [rendered |-> FALSE]

Range(s) == {s[i] : i \in 1..Len(s)}

Front(s) == SubSeq(s, 1, Len(s) - 1)

SeqsUpTo(S, n) == UNION {[1..k -> S] : k \in 0..n}

DistinctIds(s) == \A i, j \in 1..Len(s) : i # j => s[i].id # s[j].id

RevisionsOf(docs) == [id : RevIds, documentId : docs, createdAt : DateStrings]

(***************************************************************************)
(* Documents: import of .me files, and backup.                             *)
(***************************************************************************)

\* Two strings that are UUIDs.
Uuids == {"uuid-1", "uuid-2"}

\* What the id member of a parsed object can be: none, a string that is no
\* UUID, a UUID.
IdValues == {Undefined, "not-a-uuid"} \cup Uuids

\* The data of a document: what the device held at the start, and what the
\* imported files carry.
DataValues == {"old", "new"}

NoDocument == "none"

\* validate(id) of the uuid package: a string that matches the UUID pattern
Validate(id) == id \in Uuids

\* The values JSON.parse can return.
JNull == [t |-> "null", id |-> Undefined, data |-> Undefined, members |-> <<>>]

JPrimitive == [t |-> "primitive", id |-> Undefined, data |-> Undefined, members |-> <<>>]

\* An object with an id member (if any), a data member (if any) and its other
\* members' values.
JObject(id, data, members) == [t |-> "object", id |-> id, data |-> data, members |-> members]

JArray(items) == [t |-> "array", id |-> Undefined, data |-> Undefined, members |-> items]

\* The values a bundle can hold below its top level.
Entries == {JNull, JPrimitive} \cup {JObject(id, "new", <<>>) : id \in IdValues}

\* The text of a file: JSON, or anything else.
Garbage == [kind |-> "garbage", value |-> JNull]

JSONText(value) == [kind |-> "json", value |-> value]

\* JSON.parse(content) throws a SyntaxError
ParseThrows(content) == content.kind # "json"

\* JSON.parse(content)
JSONParseFile(content) == content.value

\* An EditorDocument in memory.
EditorDocument(id, data) == [id |-> id, data |-> data]

NoEditorDocument == EditorDocument(Undefined, Undefined)

\* JSON.stringify(documents) of an array of documents
JSONStringifyDocuments(docs) ==
    JSONText(JArray([i \in 1..Len(docs) |-> JObject(docs[i].id, docs[i].data, <<>>)]))

\* Object.values(data): the values of the members, an array's items, nothing
\* for a primitive.
ObjectValues(v) ==
    IF v.t = "object"
    THEN (IF v.id = Undefined THEN <<>> ELSE <<JPrimitive>>)
         \o (IF v.data = Undefined THEN <<>> ELSE <<JPrimitive>>)
         \o v.members
    ELSE IF v.t = "array" THEN v.members
    ELSE <<>>

\* Reading a member of null or undefined throws a TypeError.
ReadIdThrows(v) == v.t = "null"

\* Mutation: every call of addDocument asks for navigation.
AddDocumentCallNavigating(v, navigateTo) ==
    [document |-> EditorDocument(v.id, v.data), navigateTo |-> TRUE]

AddDocumentCall(v, navigateTo) ==
    [document |-> EditorDocument(v.id, v.data), navigateTo |-> navigateTo]

\* Mutation: the loop ends after the first call of addDocument.
RECURSIVE ForEachValueFirstOnly(_, _)
ForEachValueFirstOnly(values, calls) ==
    IF values = <<>> \/ calls # <<>> THEN [calls |-> calls, threw |-> FALSE]
    ELSE IF ReadIdThrows(Head(values)) THEN [calls |-> calls, threw |-> TRUE]
    ELSE ForEachValueFirstOnly(Tail(values),
                               IF Validate(Head(values).id)
                               THEN Append(calls, AddDocumentCall(Head(values), FALSE))
                               ELSE calls)

\* Object.values(data).forEach(document => validate(document.id) && addDocument(document)):
\* the calls of addDocument made, and whether the loop ended by a throw.
RECURSIVE ForEachValue(_, _)
ForEachValue(values, calls) ==
    IF values = <<>> THEN [calls |-> calls, threw |-> FALSE]
    ELSE IF ReadIdThrows(Head(values)) THEN [calls |-> calls, threw |-> TRUE]
    ELSE ForEachValue(Tail(values),
                      IF Validate(Head(values).id)
                      THEN Append(calls, AddDocumentCall(Head(values), FALSE))
                      ELSE calls)

\* tryParseFile(content): the calls of addDocument it makes, whether it
\* announces "Invalid file", and the document it returns.
TryParseFile(content) ==
    IF ParseThrows(content)
    THEN [calls |-> <<>>, announce |-> TRUE, document |-> NoEditorDocument]
    ELSE LET data == JSONParseFile(content)
         IN  IF ReadIdThrows(data)
             THEN [calls |-> <<>>, announce |-> TRUE, document |-> NoEditorDocument]
             ELSE IF Validate(data.id)
             THEN [calls    |-> <<AddDocumentCall(data, TRUE)>>,
                   announce |-> FALSE,
                   document |-> EditorDocument(data.id, data.data)]
             ELSE LET each == ForEachValue(ObjectValues(data), <<>>)
                  IN  [calls |-> each.calls, announce |-> each.threw,
                       document |-> NoEditorDocument]

\* documents.find(d => d.id === document.id && d.local)
FindLocal(docs, id) == docs[id].local

SelectCalls(calls, Keep(_)) ==
    LET F[n \in 0..Len(calls)] ==
            IF n = 0 THEN <<>>
            ELSE IF Keep(calls[n]) THEN Append(F[n - 1], calls[n]) ELSE F[n - 1]
    IN  F[Len(calls)]

\* addDocument, first branch: dispatch(actions.alert(...)) for these calls
AlertsOf(calls, docs) ==
    LET Exists(c) == FindLocal(docs, c.document.id) IN SelectCalls(calls, Exists)

\* addDocument, second branch: dispatch(actions.createLocalDocument(document)) for these
CreatesOf(calls, docs) ==
    LET Missing(c) == ~FindLocal(docs, c.document.id)
        new == SelectCalls(calls, Missing)
    IN  [i \in 1..Len(new) |-> [op |-> "create", document |-> new[i].document,
                                navigateTo |-> new[i].navigateTo]]

LoadLocalDocuments == [op |-> "load", document |-> NoEditorDocument, navigateTo |-> FALSE]

ImportQuiet == reading = {} /\ dbQueue = <<>> /\ alerts = <<>>

\* handleFilesChange(files): one file is read and awaited; several files are
\* handed to their readers and loadLocalDocuments is dispatched at once. The
\* user starts an import when the previous one has settled.
HandleFilesChange(fs) ==
    /\ ImportQuiet
    /\ returned
    /\ Len(fs) >= 1
    /\ files' = fs
    /\ closureDocs' = documents
    /\ reading' = 1..Len(fs)
    /\ submitted' = <<>>
    /\ notices' = 0
    /\ navigated' = <<>>
    /\ IF Len(fs) = 1
       THEN /\ returned' = FALSE
            /\ UNCHANGED dbQueue
       ELSE /\ returned' = TRUE
            /\ dbQueue' = Append(dbQueue, LoadLocalDocuments)
    /\ UNCHANGED <<db, documents, alerts, download>>
    /\ UNCHANGED <<infoVars, viewVars, stickyVars>>

\* reader.onload of one file: tryParseFile(reader.result), then resolve.
ReaderOnLoad(i) ==
    /\ i \in reading
    /\ LET parsed == TryParseFile(files[i])
       IN  /\ submitted' = submitted \o parsed.calls
           /\ alerts' = alerts \o AlertsOf(parsed.calls, closureDocs)
           /\ dbQueue' = dbQueue \o CreatesOf(parsed.calls, closureDocs)
           /\ notices' = notices + (IF parsed.announce THEN 1 ELSE 0)
    /\ reading' = reading \ {i}
    /\ returned' = (returned \/ Len(files) = 1)
    /\ UNCHANGED <<db, documents, closureDocs, files, navigated, download>>
    /\ UNCHANGED <<infoVars, viewVars, stickyVars>>

\* The oldest dispatched thunk completes. createLocalDocument and
\* updateLocalDocument put the document and then run the .then() of their
\* dispatch; loadLocalDocuments reads the device's documents into the state.
ThunkFulfilled ==
    /\ dbQueue # <<>>
    /\ LET thunk == Head(dbQueue)
           doc == thunk.document
       IN  IF thunk.op = "load"
           THEN /\ documents' = [u \in Uuids |->
                                    [documents[u] EXCEPT !.local = (db[u] # NoDocument)]]
                /\ UNCHANGED <<db, navigated>>
           ELSE /\ db' = [db EXCEPT ![doc.id] = doc.data]
                /\ documents' = [documents EXCEPT ![doc.id].local = TRUE]
                /\ navigated' = IF thunk.navigateTo THEN Append(navigated, doc.id)
                                ELSE navigated
    /\ dbQueue' = Tail(dbQueue)
    /\ UNCHANGED <<closureDocs, files, reading, returned, alerts, notices,
                   submitted, download>>
    /\ UNCHANGED <<infoVars, viewVars, stickyVars>>

\* The user confirms the oldest alert: its action dispatches updateLocalDocument.
ConfirmAlert ==
    /\ alerts # <<>>
    /\ dbQueue' = Append(dbQueue, [op |-> "update", document |-> Head(alerts).document,
                                   navigateTo |-> Head(alerts).navigateTo])
    /\ alerts' = Tail(alerts)
    /\ UNCHANGED <<db, documents, closureDocs, files, reading, returned,
                   notices, navigated, submitted, download>>
    /\ UNCHANGED <<infoVars, viewVars, stickyVars>>

\* The user declines the oldest alert.
DeclineAlert ==
    /\ alerts # <<>>
    /\ alerts' = Tail(alerts)
    /\ UNCHANGED <<db, documents, closureDocs, files, reading, returned,
                   dbQueue, notices, navigated, submitted, download>>
    /\ UNCHANGED <<infoVars, viewVars, stickyVars>>

\* documentDB.getAll(): the documents of the device, in the order of their keys
GetAll(store) ==
    (IF store["uuid-1"] # NoDocument
     THEN <<EditorDocument("uuid-1", store["uuid-1"])>> ELSE <<>>)
    \o (IF store["uuid-2"] # NoDocument
        THEN <<EditorDocument("uuid-2", store["uuid-2"])>> ELSE <<>>)

NoDownload == [done |-> FALSE]

\* backup(): the documents of the device as one JSON file.
Backup ==
    /\ ImportQuiet
    /\ download' = [done      |-> TRUE,
                    documents |-> GetAll(db),
                    text      |-> JSONStringifyDocuments(GetAll(db))]
    /\ download' # download
    /\ UNCHANGED <<db, documents, closureDocs, files, reading, returned,
                   dbQueue, alerts, notices, navigated, submitted>>
    /\ UNCHANGED <<infoVars, viewVars, stickyVars>>

\* The user deletes a local document.
DeleteLocalDocument(id) ==
    /\ ImportQuiet
    /\ db[id] # NoDocument
    /\ db' = [db EXCEPT ![id] = NoDocument]
    /\ documents' = [documents EXCEPT ![id].local = FALSE]
    /\ UNCHANGED <<closureDocs, files, reading, returned, dbQueue, alerts,
                   notices, navigated, submitted, download>>
    /\ UNCHANGED <<infoVars, viewVars, stickyVars>>

\* The documents page with the documents the device holds.
InitDocuments(held) ==
    /\ db \in [Uuids -> {NoDocument} \cup held]
    /\ \E cloud \in BOOLEAN :
          documents = [u \in Uuids |-> [local |-> db[u] # NoDocument,
                                        cloud |-> (cloud /\ u = "uuid-2")]]
    /\ closureDocs = documents
    /\ files = <<>>
    /\ reading = {}
    /\ returned = TRUE
    /\ dbQueue = <<>>
    /\ alerts = <<>>
    /\ notices = 0
    /\ navigated = <<>>
    /\ submitted = <<>>
    /\ download = NoDownload

\* No documents page.
ImportIdle ==
    /\ db = [u \in Uuids |-> NoDocument]
    /\ documents = [u \in Uuids |-> [local |-> FALSE, cloud |-> FALSE]]
    /\ closureDocs = documents
    /\ files = <<>>
    /\ reading = {}
    /\ returned = TRUE
    /\ dbQueue = <<>>
    /\ alerts = <<>>
    /\ notices = 0
    /\ navigated = <<>>
    /\ submitted = <<>>
    /\ download = NoDownload

OthersIdle ==
    /\ documentId = "d1"
    /\ userDocument = [id |-> documentId, local |-> Absent, cloud |-> Absent]
    /\ revisions = <<>>
    /\ info = NotRendered
    /\ cloudDocument = Absent
    /\ viewInfo = NotRendered
    /\ node = [color |-> "yellow", data |-> [content |-> Undefined, form |-> Undefined]]
    /\ sticky = [content |-> "EMPTY", selection |-> FALSE]
    /\ mounted = "no"
    /\ onChangePending = FALSE
    /\ renderPending = FALSE
    /\ feeds = <<>>
    /\ copied = [done |-> FALSE]

\* Every text a file of at most MaxEntries values below its top level can hold.
BundleContents ==
    {Garbage, JSONText(JNull), JSONText(JPrimitive)}
    \cup {JSONText(JObject(id, "new", ms)) :
            id \in IdValues, ms \in SeqsUpTo(Entries, MaxEntries)}
    \cup {JSONText(JArray(ms)) : ms \in SeqsUpTo(Entries, MaxEntries)}

\* The first import, of one file.
InitParse == InitDocuments({"old"}) /\ OthersIdle

NextParse ==
    \/ \E c \in BundleContents : files = <<>> /\ HandleFilesChange(<<c>>)
    \/ \E i \in reading : ReaderOnLoad(i)
    \/ ThunkFulfilled
    \/ ConfirmAlert
    \/ DeclineAlert

SpecParse == InitParse /\ [][NextParse]_vars

\* The files the user picks in the import dialog.
PickedContents ==
    <<Garbage,
      JSONText(JObject("uuid-1", "new", <<>>)),
      JSONText(JArray(<<JObject("uuid-1", "new", <<>>), JObject("uuid-2", "new", <<>>)>>)),
      JSONText(JArray(<<JObject("uuid-1", "new", <<>>), JObject("uuid-1", "new", <<>>)>>)),
      JSONText(JArray(<<JObject("uuid-1", "new", <<>>), JNull>>)),
      JSONText(JObject(Undefined, Undefined, <<JObject("not-a-uuid", "new", <<>>)>>))>>

\* The picks of one import. The order of the files does not matter to the
\* model: the readers are started together and their onload events come in any
\* order, so one order per choice of files is kept.
PickedFiles ==
    {[i \in 1..Len(ix) |-> PickedContents[ix[i]]] :
        ix \in {jx \in UNION {[1..k -> 1..Len(PickedContents)] : k \in 1..MaxFiles} :
                   \A i \in 1..(Len(jx) - 1) : jx[i] <= jx[i + 1]}}

\* Imports of picked files.
InitImport == InitDocuments({"old"}) /\ OthersIdle

NextImport ==
    \/ \E fs \in PickedFiles : HandleFilesChange(fs)
    \/ \E i \in reading : ReaderOnLoad(i)
    \/ ThunkFulfilled
    \/ ConfirmAlert
    \/ DeclineAlert

SpecImport == InitImport /\ [][NextImport]_vars

\* Backups, deletions, and imports of the backup file.
InitBackup == InitDocuments(DataValues) /\ OthersIdle

NextBackup ==
    \/ Backup
    \/ \E id \in Uuids : DeleteLocalDocument(id)
    \/ download.done /\ HandleFilesChange(<<download.text>>)
    \/ \E i \in reading : ReaderOnLoad(i)
    \/ ThunkFulfilled
    \/ ConfirmAlert
    \/ DeclineAlert

SpecBackup == InitBackup /\ [][NextBackup]_vars

(***************************************************************************)
(* StickyNode and StickyComponent: the nested editor of a sticky note.     *)
(***************************************************************************)
Colors == {"pink", "yellow"}

\* What the nested editor can hold; "EMPTY" is the root without children.
Contents == {"EMPTY", "s1", "s2"}

\* A SerializedEditorState object as it reaches the node. Its keys are in the
\* order toJSON() writes them ("canonical"), in another order ("reordered"),
\* or some keys that toJSON() writes are missing ("legacy").
Forms == {"canonical", "reordered", "legacy"}

Payloads == [content : Contents, form : Forms]

\* data?: SerializedEditorState left undefined
NoData == [content |-> Undefined, form |-> Undefined]

\* An EditorState of the nested editor: the node map and the selection.
EditorStates == [content : Contents, selection : BOOLEAN]

\* createEditor() without an editorState
EmptyEditorState == [content |-> "EMPTY", selection |-> FALSE]

\* editorState.isEmpty(): only the root and no selection
IsEmpty(state) == state.content = "EMPTY" /\ ~state.selection

\* JSON.stringify(object): the text keeps the keys in the object's order.
JSONStringify(p) == <<"{", p.form, p.content, "}">>

\* JSON.parse(text)
JSONParse(text) == [content |-> text[3], form |-> text[2]]

\* editor.parseEditorState(text): the nodes are rebuilt by their importJSON,
\* the order of the keys and the missing keys are forgotten, no selection.
ParseEditorState(text) == [content |-> JSONParse(text).content, selection |-> FALSE]

\* editorState.toJSON(): every node by its exportJSON, the selection is left out.
ToJSON(state) == [content |-> state.content, form |-> "canonical"]

\* new StickyNode(color, data, key)
StickyNode(color, data) == [color |-> color, data |-> data]

\* $createStickyNode()
CreateStickyNode == StickyNode("yellow", NoData)

\* exportJSON(): { data, color, type: 'sticky', version: 1 }
ExportJSON(n) == [data |-> n.data, color |-> n.color, type |-> "sticky", version |-> 1]

\* JSON.stringify of the serialized node inside the parent's state: a member
\* whose value is undefined is not written.
StringifySerializedNode(ser) ==
    (IF ser.data = NoData THEN <<>> ELSE <<<<"data", JSONStringify(ser.data)>>>>)
    \o <<<<"color", ser.color>>, <<"type", ser.type>>, <<"version", ser.version>>>>

HasMember(text, key) == \E i \in 1..Len(text) : text[i][1] = key

Member(text, key) == text[CHOOSE i \in 1..Len(text) : text[i][1] = key][2]

\* JSON.parse of that text: a member that is not written reads as undefined.
ParseSerializedNode(text) ==
    [data    |-> IF HasMember(text, "data") THEN JSONParse(Member(text, "data")) ELSE NoData,
     color   |-> Member(text, "color"),
     type    |-> Member(text, "type"),
     version |-> Member(text, "version")]

\* Mutation: the data argument of the constructor is left out.
ImportJSONWithoutData(serializedNode) == StickyNode(serializedNode.color, NoData)

\* static importJSON(serializedNode)
ImportJSON(serializedNode) == StickyNode(serializedNode.color, serializedNode.data)

NoCopy == [done |-> FALSE]

\* Mutation: the payload is compared by reference, a new object always differs.
InflowReplacesByReference(state, data) == data # NoData

\* The inflow effect: the state the nested editor is left in.
\*   if (editor && data) {
\*     if (JSON.stringify(oldState) === JSON.stringify(data)) return;
\*     setEditorState(parseEditorState(JSON.stringify(data))) }
InflowReplaces(state, data) ==
    /\ data # NoData
    /\ JSONStringify(ToJSON(state)) # JSONStringify(data)

InflowState(state, data) ==
    IF InflowReplaces(state, data) THEN ParseEditorState(JSONStringify(data)) ELSE state

\* Mutation: OnChangePlugin without ignoreInitialChange and ignoreSelectionChange.
OnChangeCalledWithoutIgnores(prev, dirty) == TRUE

\* OnChangePlugin with ignoreInitialChange and ignoreSelectionChange: the
\* listener of an update that dirtied nodes calls onChange unless the previous
\* editor state was empty.
OnChangeCalled(prev, dirty) == dirty /\ ~IsEmpty(prev)

Idle == mounted = "yes" /\ ~onChangePending /\ ~renderPending

\* The component mounts: the nested editor is created from data, then the
\* inflow effect runs for the first time.
Mount ==
    /\ mounted = "no"
    /\ LET initial == IF node.data # NoData
                      THEN ParseEditorState(JSONStringify(node.data))
                      ELSE EmptyEditorState
       IN  /\ sticky' = InflowState(initial, node.data)
           /\ onChangePending' = OnChangeCalled(initial, InflowReplaces(initial, node.data))
           /\ feeds' = <<[data |-> node.data, replaced |-> InflowReplaces(initial, node.data)]>>
    /\ mounted' = "yes"
    /\ UNCHANGED <<node, renderPending, copied>>
    /\ UNCHANGED <<infoVars, viewVars, importVars>>

\* The parent's state changes the node's data (an undo, a remote change, a
\* reload): the component renders with the new data and the inflow effect runs.
Feed(data) ==
    /\ Idle
    /\ node' = [node EXCEPT !.data = data]
    /\ sticky' = InflowState(sticky, data)
    /\ onChangePending' = OnChangeCalled(sticky, InflowReplaces(sticky, data))
    /\ feeds' = (IF feeds = <<>> THEN <<>> ELSE <<feeds[Len(feeds)]>>)
                \o <<[data |-> data, replaced |-> InflowReplaces(sticky, data)]>>
    /\ UNCHANGED <<mounted, renderPending, copied>>
    /\ UNCHANGED <<infoVars, viewVars, importVars>>

\* handleChange: node.setData(stickyEditor.current.getEditorState().toJSON())
HandleChange ==
    /\ mounted = "yes"
    /\ onChangePending
    /\ node' = [node EXCEPT !.data = ToJSON(sticky)]
    /\ onChangePending' = FALSE
    /\ renderPending' = TRUE
    /\ UNCHANGED <<sticky, mounted, feeds, copied>>
    /\ UNCHANGED <<infoVars, viewVars, importVars>>

\* The render that follows setData: the inflow effect runs with the node's data.
Rerender ==
    /\ mounted = "yes"
    /\ renderPending
    /\ ~onChangePending
    /\ sticky' = InflowState(sticky, node.data)
    /\ onChangePending' = OnChangeCalled(sticky, InflowReplaces(sticky, node.data))
    /\ renderPending' = FALSE
    /\ UNCHANGED <<node, mounted, feeds, copied>>
    /\ UNCHANGED <<infoVars, viewVars, importVars>>

\* The user edits the note: an update of the nested editor that dirties nodes.
ContentChange(content) ==
    /\ Idle
    /\ sticky.selection
    /\ content # sticky.content
    /\ sticky' = [sticky EXCEPT !.content = content]
    /\ onChangePending' = OnChangeCalled(sticky, TRUE)
    /\ feeds' = <<>>
    /\ UNCHANGED <<node, mounted, renderPending, copied>>
    /\ UNCHANGED <<infoVars, viewVars, importVars>>

\* The user focuses or leaves the note: an update that dirties no node.
SelectionChange ==
    /\ Idle
    /\ sticky' = [sticky EXCEPT !.selection = ~sticky.selection]
    /\ onChangePending' = OnChangeCalled(sticky, FALSE)
    /\ UNCHANGED <<node, mounted, renderPending, feeds, copied>>
    /\ UNCHANGED <<infoVars, viewVars, importVars>>

\* handleColorChange: node.toggleColor()
ToggleColor ==
    /\ Idle
    /\ node' = [node EXCEPT !.color = IF node.color = "pink" THEN "yellow" ELSE "pink"]
    /\ UNCHANGED <<sticky, mounted, onChangePending, renderPending, feeds, copied>>
    /\ UNCHANGED <<infoVars, viewVars, importVars>>

\* handleDelete: node.remove()
Delete ==
    /\ Idle
    /\ mounted' = "removed"
    /\ UNCHANGED <<node, sticky, onChangePending, renderPending, feeds, copied>>
    /\ UNCHANGED <<infoVars, viewVars, importVars>>

\* The parent's state is exported and imported again: the node goes through
\* exportJSON, the JSON text and importJSON.
ExportImport ==
    /\ mounted # "removed"
    /\ ~onChangePending
    /\ copied' = [done   |-> TRUE,
                  from   |-> node,
                  text   |-> StringifySerializedNode(ExportJSON(node)),
                  result |-> ImportJSON(ParseSerializedNode(
                                 StringifySerializedNode(ExportJSON(node))))]
    /\ copied' # copied
    /\ UNCHANGED <<node, sticky, mounted, onChangePending, renderPending, feeds>>
    /\ UNCHANGED <<infoVars, viewVars, importVars>>

\* No sticky note.
StickyIdle ==
    /\ node = CreateStickyNode
    /\ sticky = EmptyEditorState
    /\ mounted = "no"
    /\ onChangePending = FALSE
    /\ renderPending = FALSE
    /\ feeds = <<>>
    /\ copied = NoCopy

\* A node made by $createStickyNode() or by importJSON from a stored document.
InitSticky ==
    /\ node \in {CreateStickyNode} \cup
                {StickyNode(c, d) : c \in Colors, d \in Payloads \cup {NoData}}
    /\ sticky = EmptyEditorState
    /\ mounted = "no"
    /\ onChangePending = FALSE
    /\ renderPending = FALSE
    /\ feeds = <<>>
    /\ copied = NoCopy
    /\ documentId = "d1"
    /\ userDocument = [id |-> documentId, local |-> Absent, cloud |-> Absent]
    /\ revisions = <<>>
    /\ info = NotRendered
    /\ cloudDocument = Absent
    /\ viewInfo = NotRendered
    /\ ImportIdle

NextSticky ==
    \/ Mount
    \/ \E data \in Payloads \cup {NoData} : Feed(data)
    \/ HandleChange
    \/ Rerender
    \/ \E content \in Contents : ContentChange(content)
    \/ SelectionChange
    \/ ToggleColor
    \/ Delete
    \/ ExportImport

SpecSticky == InitSticky /\ [][NextSticky]_vars

\* The listener's call of handleChange and the render that React schedules
\* after setData are not postponed forever.
SpecStickyFair ==
    /\ InitSticky
    /\ [][NextSticky]_vars
    /\ WF_vars(HandleChange)
    /\ WF_vars(Rerender)

(***************************************************************************)
(* DocumentInfo: the revision reconciler.                                  *)
(***************************************************************************)

\* array.some(r => r.id === id)
SomeId(s, id) == \E i \in 1..Len(s) : s[i].id = id

\* array.filter(r => r.documentId === documentId)
RECURSIVE FilterByDocument(_, _)
FilterByDocument(s, doc) ==
    IF s = <<>> THEN <<>>
    ELSE LET rest == FilterByDocument(Tail(s), doc)
         IN  IF Head(s).documentId = doc THEN <<Head(s)>> \o rest ELSE rest

\* localDocumentRevisions.forEach(revision => { if (!revisions.find(...)) revisions.push(revision) })
RECURSIVE PushMissing(_, _)
PushMissing(acc, locals) ==
    IF locals = <<>> THEN acc
    ELSE PushMissing(IF SomeId(acc, Head(locals).id) THEN acc ELSE Append(acc, Head(locals)),
                     Tail(locals))

\* Mutation: a sort that is not stable, x goes before its equals.
InsertBeforeEquals(x, sorted) ==
    LET k == Cardinality({i \in 1..Len(sorted) :
                 GetTime(sorted[i].createdAt) > GetTime(x.createdAt)})
    IN  SubSeq(sorted, 1, k) \o <<x>> \o SubSeq(sorted, k + 1, Len(sorted))

\* One step of the stable sort with comparator time(b) - time(a): x goes after
\* every element that is at least as recent.
InsertByDate(x, sorted) ==
    LET k == Cardinality({i \in 1..Len(sorted) :
                 GetTime(sorted[i].createdAt) >= GetTime(x.createdAt)})
    IN  SubSeq(sorted, 1, k) \o <<x>> \o SubSeq(sorted, k + 1, Len(sorted))

\* [...revisions].sort((a, b) => new Date(b.createdAt).getTime() - new Date(a.createdAt).getTime())
RECURSIVE SortByDateDesc(_)
SortByDateDesc(s) ==
    IF s = <<>> THEN <<>>
    ELSE InsertByDate(s[Len(s)], SortByDateDesc(Front(s)))

LocalHead(doc) == IF doc.local.present THEN doc.local.head ELSE Undefined

CloudRevisions(doc) == IF doc.cloud.present THEN doc.cloud.revisions ELSE <<>>

\* Mutation: the revisions are not filtered by document.
IsHeadAnyLocalRevision(doc, revs, id) == SomeId(revs, LocalHead(doc))

IsHeadLocalRevision(doc, revs, id) == SomeId(FilterByDocument(revs, id), LocalHead(doc))

IsHeadCloudRevision(doc) == SomeId(CloudRevisions(doc), LocalHead(doc))

UnsavedChanges(doc, revs, id) ==
    ~IsHeadLocalRevision(doc, revs, id) /\ ~IsHeadCloudRevision(doc)

\* Mutation: the heads are compared with === instead of !==.
IsHeadInSync(doc) ==
    (doc.local.present /\ doc.cloud.present) /\ doc.local.head = doc.cloud.head

IsHeadOutOfSync(doc) ==
    (doc.local.present /\ doc.cloud.present) /\ doc.local.head # doc.cloud.head

UnsavedRevision(doc) ==
    [id        |-> LocalHead(doc),
     documentId |-> IF doc.local.present THEN doc.local.id ELSE Undefined,
     createdAt |-> IF doc.local.present THEN doc.local.updatedAt ELSE Undefined]

MergedRevisions(doc, revs, id) ==
    PushMissing(CloudRevisions(doc), FilterByDocument(revs, id))

SortedRevisions(doc, revs, id) ==
    LET sorted == SortByDateDesc(MergedRevisions(doc, revs, id))
    IN  IF UnsavedChanges(doc, revs, id) THEN <<UnsavedRevision(doc)>> \o sorted ELSE sorted

\* One render of the component.
DocumentInfo ==
    /\ info' = [rendered         |-> TRUE,
                unsavedChanges   |-> UnsavedChanges(userDocument, revisions, documentId),
                isHeadOutOfSync  |-> IsHeadOutOfSync(userDocument),
                sortedRevisions  |-> SortedRevisions(userDocument, revisions, documentId)]
    /\ info # info'
    /\ UNCHANGED <<documentId, userDocument, revisions>>
    /\ UNCHANGED viewVars
    /\ UNCHANGED stickyVars
    /\ UNCHANGED importVars

LocalDocuments(id) ==
    {Absent} \cup [present : {TRUE}, id : {id}, head : RevIds, updatedAt : UpdatedAtStrings]

CloudDocuments(id) ==
    {Absent} \cup
    {[present |-> TRUE, id |-> id, head |-> h, revisions |-> rs] :
        h \in RevIds,
        rs \in {s \in SeqsUpTo(RevisionsOf({id}), MaxCloudRevs) : DistinctIds(s)}}

InitInfo ==
    /\ documentId = "d1"
    /\ userDocument \in [id : {documentId}, local : LocalDocuments(documentId),
                         cloud : CloudDocuments(documentId)]
    /\ revisions \in {s \in SeqsUpTo(RevisionsOf(DocIds), MaxLocalRevs) : DistinctIds(s)}
    /\ info = NotRendered
    /\ cloudDocument = Absent
    /\ viewInfo = NotRendered
    /\ StickyIdle
    /\ ImportIdle

NextInfo == DocumentInfo

SpecInfo == InitInfo /\ [][NextInfo]_vars

(***************************************************************************)
(* EditDocumentInfo: the collaborators of a cloud document.                *)
(***************************************************************************)
UserIds == {"U1", "U2", "U3"}

Users == [id : UserIds]

\* array.some(u => u.id === id), acc.find(u => u.id === id)
SomeUser(s, id) == \E i \in 1..Len(s) : s[i].id = id

\* Mutation: the accumulator is not searched, an author is pushed at every revision.
PushCollaboratorAgain(acc, rev, doc) ==
    IF /\ rev.author.id # doc.author.id
       /\ ~SomeUser(doc.coauthors, rev.author.id)
    THEN Append(acc, rev.author)
    ELSE acc

\* The reducer of cloudDocument.revisions.reduce((acc, rev) => ..., [])
PushCollaborator(acc, rev, doc) ==
    IF /\ rev.author.id # doc.author.id
       /\ ~SomeUser(doc.coauthors, rev.author.id)
       /\ ~SomeUser(acc, rev.author.id)
    THEN Append(acc, rev.author)
    ELSE acc

RECURSIVE Reduce(_, _, _)
Reduce(acc, revs, doc) ==
    IF revs = <<>> THEN acc
    ELSE Reduce(PushCollaborator(acc, Head(revs), doc), Tail(revs), doc)

IsCollab(doc) == doc.published /\ doc.collab

Collaborators(doc) == IF IsCollab(doc) THEN Reduce(<<>>, doc.revisions, doc) ELSE <<>>

\* One render of the component.
EditDocumentInfo ==
    /\ viewInfo' = [rendered      |-> TRUE,
                    isCollab      |-> IsCollab(cloudDocument),
                    collaborators |-> Collaborators(cloudDocument)]
    /\ viewInfo # viewInfo'
    /\ UNCHANGED cloudDocument
    /\ UNCHANGED infoVars
    /\ UNCHANGED stickyVars
    /\ UNCHANGED importVars

ViewDocuments ==
    {[present |-> TRUE, author |-> a, coauthors |-> cs, revisions |-> rs,
      published |-> p, collab |-> c] :
        a \in Users,
        cs \in {s \in SeqsUpTo(Users, MaxCoauthors) : DistinctIds(s)},
        rs \in SeqsUpTo([author : Users], MaxViewRevs),
        p \in BOOLEAN, c \in BOOLEAN}

InitView ==
    /\ cloudDocument \in ViewDocuments
    /\ viewInfo = NotRendered
    /\ documentId = "d1"
    /\ userDocument = [id |-> documentId, local |-> Absent, cloud |-> Absent]
    /\ revisions = <<>>
    /\ info = NotRendered
    /\ StickyIdle
    /\ ImportIdle

NextView == EditDocumentInfo

SpecView == InitView /\ [][NextView]_vars

(***************************************************************************)
(* Claims about the reconciler.                                            *)
(***************************************************************************)

IdsOf(s) == {s[i].id : i \in 1..Len(s)}

\* The ids of the local revisions of the rendered document.
LocalRevisionIds == {revisions[i].id : i \in {j \in 1..Len(revisions) :
                                                revisions[j].documentId = documentId}}

CloudRevisionIds ==
    IF userDocument.cloud.present THEN IdsOf(userDocument.cloud.revisions) ELSE {}

HeadIsUnknown ==
    /\ userDocument.local.present
    /\ userDocument.local.head \notin LocalRevisionIds \cup CloudRevisionIds

\* C1: a local head that is the id of no local revision of the document and of
\* no cloud revision makes the render report unsavedChanges and put the
\* synthesized revision (id = head, documentId = the document's id, createdAt =
\* the local updatedAt) first in the list.
C1_DivergenceDetection ==
    (info.rendered /\ HeadIsUnknown) =>
        /\ info.unsavedChanges
        /\ Len(info.sortedRevisions) >= 1
        /\ info.sortedRevisions[1] = [id         |-> userDocument.local.head,
                                      documentId |-> userDocument.id,
                                      createdAt  |-> userDocument.local.updatedAt]

\* The head is unknown although a revision of another document carries its id,
\* and the document has revisions on both sides.
C1_Witness ==
    /\ info.rendered
    /\ HeadIsUnknown
    /\ \E i \in 1..Len(revisions) : revisions[i].id = userDocument.local.head
    /\ CloudRevisionIds # {}
    /\ info.sortedRevisions[1].id = userDocument.local.head

BothSides == userDocument.local.present /\ userDocument.cloud.present

KnownRevisionIds == LocalRevisionIds \cup CloudRevisionIds

\* C2: with both sides present headOutOfSync is exactly local.head # cloud.head,
\* whatever unsavedChanges is; when the heads differ and both are ids of known
\* revisions the render reports headOutOfSync and no unsaved changes.
C2_OutOfSyncDetection ==
    (info.rendered /\ BothSides) =>
        /\ info.isHeadOutOfSync = (userDocument.local.head # userDocument.cloud.head)
        /\ ( ( /\ userDocument.local.head # userDocument.cloud.head
               /\ userDocument.local.head \in KnownRevisionIds
               /\ userDocument.cloud.head \in KnownRevisionIds )
             => (info.isHeadOutOfSync /\ ~info.unsavedChanges) )

C2_Witness ==
    /\ info.rendered
    /\ BothSides
    /\ userDocument.local.head # userDocument.cloud.head
    /\ userDocument.local.head \in LocalRevisionIds
    /\ userDocument.cloud.head \in CloudRevisionIds
    /\ info.isHeadOutOfSync
    /\ ~info.unsavedChanges

\* The rendered list without the synthesized revision.
MergedList ==
    IF info.unsavedChanges THEN Tail(info.sortedRevisions) ELSE info.sortedRevisions

IdRank(id) == CASE id = "A" -> 1 [] id = "B" -> 2 [] id = "C" -> 3 [] OTHER -> 0

IsUnionWithoutDuplicates(list) ==
    /\ IdsOf(list) = KnownRevisionIds
    /\ \A i, j \in 1..Len(list) : i # j => list[i].id # list[j].id

IsMostRecentFirst(list) ==
    \A i, j \in 1..Len(list) :
        i < j => GetTime(list[i].createdAt) >= GetTime(list[j].createdAt)

TiesAscendingById(list) ==
    \A i, j \in 1..Len(list) :
        (i < j /\ GetTime(list[i].createdAt) = GetTime(list[j].createdAt))
            => IdRank(list[i].id) < IdRank(list[j].id)

TiesDescendingById(list) ==
    \A i, j \in 1..Len(list) :
        (i < j /\ GetTime(list[i].createdAt) = GetTime(list[j].createdAt))
            => IdRank(list[i].id) > IdRank(list[j].id)

SuppliedAt(r) ==
    IF r.id \in CloudRevisionIds
    THEN CHOOSE i \in 1..Len(userDocument.cloud.revisions) :
            userDocument.cloud.revisions[i] = r
    ELSE Len(CloudRevisions(userDocument))
         + (CHOOSE i \in 1..Len(revisions) : revisions[i] = r)

IsSupplied(r) ==
    \/ r \in Range(CloudRevisions(userDocument))
    \/ /\ r \in Range(revisions)
       /\ r.documentId = documentId
       /\ r.id \notin CloudRevisionIds

LocalOnly == userDocument.local.present /\ ~userDocument.cloud.present

CloudOnly == ~userDocument.local.present /\ userDocument.cloud.present

\* C11: for a document with only a local side the render reports neither
\* unsaved changes nor a head out of sync, and its list holds no synthesized
\* revision: every entry is a local revision of the document.
C11_LocalOnlyNoDivergence ==
    (info.rendered /\ LocalOnly) =>
        /\ ~info.unsavedChanges
        /\ ~info.isHeadOutOfSync
        /\ IdsOf(info.sortedRevisions) \subseteq LocalRevisionIds

\* C17: for a document with only a cloud side the render reports no unsaved
\* changes and its list is the cloud revisions, most recent first, without an
\* entry whose id is undefined.
C17_CloudOnlyNoPlaceholder ==
    (info.rendered /\ CloudOnly /\ LocalRevisionIds = {}) =>
        /\ ~info.unsavedChanges
        /\ Undefined \notin IdsOf(info.sortedRevisions)
        /\ info.sortedRevisions = SortByDateDesc(userDocument.cloud.revisions)

(***************************************************************************)
(* Claims about the collaborators.                                         *)
(***************************************************************************)

RevisionAuthorIds == {cloudDocument.revisions[i].author.id :
                        i \in 1..Len(cloudDocument.revisions)}

OwnerIds == {cloudDocument.author.id} \cup
            {cloudDocument.coauthors[i].id : i \in 1..Len(cloudDocument.coauthors)}

FirstRevisionOf(u) ==
    CHOOSE i \in 1..Len(cloudDocument.revisions) :
        /\ cloudDocument.revisions[i].author.id = u
        /\ \A j \in 1..(i - 1) : cloudDocument.revisions[j].author.id # u

\* The list holds exactly the revision authors that are neither the author nor
\* a coauthor, each once, in order of first appearance.
IsCollaboratorList(list) ==
    /\ IdsOf(list) = RevisionAuthorIds \ OwnerIds
    /\ \A i, j \in 1..Len(list) : i # j => list[i].id # list[j].id
    /\ \A i, j \in 1..Len(list) :
          i < j => FirstRevisionOf(list[i].id) < FirstRevisionOf(list[j].id)

\* C3 as stated: for a document whose collab flag is set the collaborators are
\* exactly the revision authors that are neither author nor coauthor, each
\* once, in order of first appearance.
C3_CollabFlagGivesCollaborators ==
    (viewInfo.rendered /\ cloudDocument.collab) => IsCollaboratorList(viewInfo.collaborators)

\* C3 as amended: that list is derived for a document that is published and
\* collab; for every other document the list is empty; it never holds the
\* author or a coauthor.
C3_CollaboratorDerivation ==
    viewInfo.rendered =>
        /\ (cloudDocument.published /\ cloudDocument.collab)
              => IsCollaboratorList(viewInfo.collaborators)
        /\ ~(cloudDocument.published /\ cloudDocument.collab)
              => viewInfo.collaborators = <<>>
        /\ IdsOf(viewInfo.collaborators) \cap OwnerIds = {}

\* The example of the specification: author U1, coauthors [U2], revisions by
\* U1, U2, U3, U3, U1 give [U3].
C3_Witness ==
    /\ viewInfo.rendered
    /\ cloudDocument.published /\ cloudDocument.collab
    /\ cloudDocument.author.id = "U1"
    /\ cloudDocument.coauthors = <<[id |-> "U2"]>>
    /\ cloudDocument.revisions = <<[author |-> [id |-> "U1"]], [author |-> [id |-> "U2"]],
                                   [author |-> [id |-> "U3"]], [author |-> [id |-> "U3"]],
                                   [author |-> [id |-> "U1"]]>>
    /\ viewInfo.collaborators = <<[id |-> "U3"]>>

(***************************************************************************)
(* Claims about the sticky note.                                           *)
(***************************************************************************)

Replacements(log) == Cardinality({i \in 1..Len(log) : log[i].replaced})

SamePayloadTwice == Len(feeds) = 2 /\ feeds[1].data = feeds[2].data

\* C9: when the parent feeds the same payload twice in succession the nested
\* editor's state is replaced at most once.
C9_SamePayloadReplacedOnce == SamePayloadTwice => Replacements(feeds) <= 1

\* C10: the node that importJSON builds from the exported node has the data
\* and the color of the exported node.
C10_ExportImportRoundTrip ==
    copied.done =>
        /\ copied.result.data = copied.from.data
        /\ copied.result.color = copied.from.color

\* A pink node that carries a payload not in the form toJSON() writes went
\* through export and import.
C10_Witness ==
    /\ copied.done
    /\ copied.from.color = "pink"
    /\ copied.from.data # NoData
    /\ copied.from.data.form = "legacy"
    /\ copied.result = copied.from

\* handleChange or the render after setData is still to run.
BridgeBusy == mounted = "yes" /\ (onChangePending \/ renderPending)

BridgeQuiet == ~onChangePending /\ ~renderPending

\* The render that follows a write of handleChange runs in this step.
RenderAfterWrite == mounted = "yes" /\ renderPending /\ ~renderPending'

\* C14: the render that follows the outflow write replaces nothing and calls
\* onChange no more, and whenever an outflow write or its render is due the
\* bridge comes to rest, with neither of them enabled.
C14_NoOscillation ==
    /\ [][RenderAfterWrite => (sticky' = sticky /\ ~onChangePending')]_vars
    /\ BridgeBusy ~> BridgeQuiet

\* The user changed the content of a yellow note, and the bridge is at rest
\* with the written data equal to the nested editor's state.
C14_Witness ==
    /\ mounted = "yes"
    /\ feeds = <<>>
    /\ BridgeQuiet
    /\ sticky.content = "s1" /\ sticky.selection
    /\ node.color = "yellow"
    /\ node.data = ToJSON(sticky)

\* The user changes the content of the nested editor in this step.
UserContentChange ==
    /\ mounted = "yes" /\ mounted' = "yes"
    /\ sticky'.content # sticky.content
    /\ node' = node

\* The user moves the selection of the nested editor: its content is not
\* changed and the parent feeds nothing. (A feed that replaces the state drops
\* the selection; it repeats the log of the feeds only after two replacements
\* of one payload.)
SelectionOnly ==
    /\ mounted = "yes" /\ mounted' = "yes"
    /\ sticky'.content = sticky.content
    /\ sticky'.selection # sticky.selection
    /\ node' = node
    /\ feeds' = feeds
    /\ (sticky'.selection \/ Replacements(feeds) < 2)

\* handleChange runs in this step.
OutflowWrite == mounted = "yes" /\ onChangePending /\ ~onChangePending'

\* The nested editor's state is replaced while it was empty: the initial change.
InitialChange ==
    \/ mounted = "no" /\ mounted' = "yes" /\ (node.data = NoData \/ node.data.content = "EMPTY")
    \/ mounted = "yes" /\ IsEmpty(sticky) /\ sticky' # sticky /\ node' # node

\* C15: a content change makes handleChange run; handleChange writes the
\* nested editor's serialized state to the node and keeps the color; a change
\* of the selection alone and the initial change call nothing and write
\* nothing; at rest after the user's change the node's data is the nested
\* editor's serialized state.
C15_OutflowWritesContent ==
    [][ /\ UserContentChange => onChangePending'
        /\ OutflowWrite => (node'.data = ToJSON(sticky') /\ node'.color = node.color
                            /\ sticky' = sticky)
        /\ SelectionOnly => (~onChangePending' /\ ~renderPending')
        /\ InitialChange => ~onChangePending'
        /\ (mounted' = "yes" /\ feeds' = <<>> /\ BridgeQuiet')
              => node'.data = ToJSON(sticky') ]_vars

\* The user changed the content of a pink note and then moved the selection
\* away: the node holds the new content and is still pink.
C15_Witness ==
    /\ mounted = "yes"
    /\ feeds = <<>>
    /\ BridgeQuiet
    /\ sticky.content = "s2" /\ ~sticky.selection
    /\ node.color = "pink"
    /\ node.data = ToJSON(sticky)

(***************************************************************************)
(* Claims about import and backup.                                         *)
(***************************************************************************)

\* One file was picked and has been read.
OneFileRead == Len(files) = 1 /\ reading = {}

\* The file parsed to an object or an array.
ParsedBundle == files[1].kind = "json" /\ files[1].value.t \in {"object", "array"}

HasValidId(v) == Validate(v.id)

\* The values of the top level whose id is a UUID, as calls of addDocument.
ValidValueCalls(v) ==
    LET valid == SelectSeq(ObjectValues(v), HasValidId)
    IN  [i \in 1..Len(valid) |->
            [document |-> [id |-> valid[i].id, data |-> valid[i].data], navigateTo |-> FALSE]]

\* C5: a top level with a UUID id is submitted alone; otherwise every value
\* with a UUID id is submitted, and a value without one is skipped and does
\* not stop the values after it.
C5_DecodeBundle ==
    (OneFileRead /\ ParsedBundle) =>
        LET v == files[1].value
        IN  IF Validate(v.id)
            THEN submitted = <<[document |-> [id |-> v.id, data |-> v.data],
                                navigateTo |-> TRUE]>>
            ELSE submitted = ValidValueCalls(v)

\* The file parsed and holds entries, none with a UUID id, at its top level
\* or one level below.
NoValidEntry ==
    /\ ParsedBundle
    /\ ~Validate(files[1].value.id)
    /\ ObjectValues(files[1].value) # <<>>
    /\ ValidValueCalls(files[1].value) = <<>>

\* C6: a file that parses but holds no entry with a UUID id imports nothing,
\* announces "Invalid file" and leaves the device's documents as they were.
C6_InvalidBundleNotice ==
    (OneFileRead /\ NoValidEntry) =>
        /\ submitted = <<>>
        /\ dbQueue = <<>> /\ alerts = <<>>
        /\ \A u \in Uuids : db[u] # "new"
        /\ notices >= 1

CreateCompletes ==
    /\ dbQueue # <<>>
    /\ dbQueue' = Tail(dbQueue)
    /\ Head(dbQueue).op = "create"

AlertDeclined == alerts # <<>> /\ alerts' = Tail(alerts) /\ dbQueue' = dbQueue

\* C7: no document is created over a local document the device holds at that
\* time, an existing document is replaced only by the update a confirmed
\* alert dispatched, and a declined alert leaves the device's documents as
\* they were.
C7_NoUnconfirmedOverwrite ==
    [][ /\ CreateCompletes => db[Head(dbQueue).document.id] = NoDocument
        /\ AlertDeclined => db' = db ]_vars

CreatePending == \E i \in 1..Len(dbQueue) : dbQueue[i].op = "create"

LoadIssued == \E i \in 1..Len(dbQueue) : dbQueue[i].op = "load"

\* C12: once handleFilesChange has returned, every picked file has been read,
\* no create of the import is pending and every document the device holds is
\* in the document list as local; and loadLocalDocuments is not issued while a
\* file is unread or a create is pending.
C12_ReturnsAfterRefresh ==
    /\ (files # <<>> /\ returned) =>
          /\ reading = {}
          /\ ~CreatePending
          /\ \A u \in Uuids : db[u] # NoDocument => documents[u].local
    /\ LoadIssued => (reading = {} /\ ~CreatePending)

\* C13: when the read of a file ended with the "Invalid file" notice, no
\* document of that file was passed to addDocument, neither for creation nor
\* for the overwrite alert.
C13_NoPartialResult ==
    (OneFileRead /\ notices >= 1) =>
        /\ submitted = <<>>
        /\ dbQueue = <<>> /\ alerts = <<>>
        /\ \A u \in Uuids : db[u] # "new"

\* The file holds one document at its top level.
IsSingleDocumentForm(content) == content.kind = "json" /\ Validate(content.value.id)

SingleDocumentFiles == {i \in 1..Len(files) : IsSingleDocumentForm(files[i])}

\* The oldest thunk, a create or an update that asks for navigation, completes
\* in this step: the document is written and its id is navigated to.
NavigatingCompletion ==
    /\ dbQueue # <<>>
    /\ Head(dbQueue).op \in {"create", "update"}
    /\ Head(dbQueue).navigateTo
    /\ dbQueue' = Tail(dbQueue)
    /\ db'[Head(dbQueue).document.id] = Head(dbQueue).document.data
    /\ navigated' = Append(navigated, Head(dbQueue).document.id)
    /\ \E i \in SingleDocumentFiles : files[i].value.id = Head(dbQueue).document.id
    /\ Head(dbQueue).op = "update" => closureDocs[Head(dbQueue).document.id].local

\* C16: a navigation happens only in the step that completes the create, or
\* the confirmed update, of a document that a file held in single-document
\* form; there are never more navigations than such files, so the documents of
\* a multi-document bundle and a declined alert cause none.
C16_NavigationAfterCompletion ==
    [][ /\ Len(navigated') > Len(navigated) => NavigatingCompletion
        /\ Len(navigated') <= Cardinality(SingleDocumentFiles') ]_vars

\* A document in single-document form and a bundle of two were picked
\* together; the overwrite of the first was confirmed and navigated to, the
\* bundle's documents were written and caused no navigation.
C16_Witness ==
    /\ Len(files) = 2
    /\ IsSingleDocumentForm(files[1]) /\ files[1].value.id = "uuid-1"
    /\ files[2].kind = "json" /\ files[2].value.t = "array"
    /\ closureDocs["uuid-1"].local /\ ~closureDocs["uuid-2"].local
    /\ ImportQuiet
    /\ navigated = <<"uuid-1">>
    /\ db["uuid-1"] = "new" /\ db["uuid-2"] = "new"

\* The import of the backup file ends in this step, and the device held none
\* of the backup's documents when the import started.
RestoreEnds ==
    /\ download.done
    /\ files = <<download.text>>
    /\ \A i \in 1..Len(download.documents) : ~closureDocs[download.documents[i].id].local
    /\ ~(ImportQuiet /\ returned)
    /\ (ImportQuiet /\ returned)'

Restored ==
    /\ \A i \in 1..Len(download.documents) :
          db[download.documents[i].id] = download.documents[i].data
    /\ \A u \in Uuids :
          db[u] # NoDocument =>
              \/ closureDocs[u].local
              \/ \E i \in 1..Len(download.documents) : download.documents[i].id = u

\* C8: importing the file of a backup into a device that holds none of its
\* documents leaves one local document per document of the backup, with its
\* id and data, and creates no other document.
C8_BackupRoundTrip == [][RestoreEnds => Restored']_vars

\* Two documents of different data were backed up, deleted and restored.
C8_Witness ==
    /\ download.done
    /\ files = <<download.text>>
    /\ ImportQuiet /\ returned
    /\ Len(download.documents) = 2
    /\ \A u \in Uuids : ~closureDocs[u].local
    /\ db["uuid-1"] = "old" /\ db["uuid-2"] = "new"
    /\ submitted = <<[document |-> [id |-> "uuid-1", data |-> "old"], navigateTo |-> FALSE],
                     [document |-> [id |-> "uuid-2", data |-> "new"], navigateTo |-> FALSE]>>

====
